---- MODULE Spec2Model ----
(***************************************************************************)
(* A model of scripts/export_to_csv.py: the exporter that turns JSON       *)
(* measurement-run documents into a summary CSV and a deployments CSV.     *)
(*                                                                         *)
(* Encoding of the Python values:                                          *)
(*   - a JSON object (dict) is a function from its keys (strings) to       *)
(*     values; d.get(k, default) is Get(d, k, default);                    *)
(*   - the `deployments` object is the sequence of its (key, data) items   *)
(*     in document order, so len() is Len and .items() is the sequence;    *)
(*   - the strings that parse_cluster_info takes apart (cluster_context,   *)
(*     cluster, region) are sequences of one-character strings, '' is <<>>;*)
(*   - a CSV cell fed from a JSON number is <<n>>, the empty string ''     *)
(*     is <<>> (so 0 and '' are different cells);                          *)
(*   - a file is [valid |-> BOOLEAN, data |-> dict]: json.load raises on   *)
(*     a file that is not valid.                                           *)
(* Only the columns of the two tables that depend on the schema fallbacks  *)
(* are carried in the rows.                                                *)
(***************************************************************************)
EXTENDS Integers, Sequences, FiniteSets, TLC

VARIABLES
    path_kind,         \* args.input_path: "file", "dir" or "missing"
    tree,              \* the files under input_path, in sorted path order
    summary_only,      \* args.summary_only
    deployments_only,  \* args.deployments_only
    pc,                \* position of main
    json_files,        \* main's json_files
    output_dir_made,   \* output_dir.mkdir(...) has run
    calls,             \* the export functions called so far, in order
    idx,               \* 1-based position of the running export's file loop
    rows,              \* the running export's rows
    summary_file,      \* <base>-summary.csv as written by this run
    deployments_file,  \* <base>-deployments.csv as written by this run
    log,               \* the log records emitted, in order
    status             \* "running", "exit0", "exit1" or "exception"

vars == <<path_kind, tree, summary_only, deployments_only, pc, json_files,
          output_dir_made, calls, idx, rows, summary_file,
          deployments_file, log, status>>

inputs == <<path_kind, tree, summary_only, deployments_only>>

-----------------------------------------------------------------------------
(* Bounds of the model *)

MaxFiles == 3

MaxMeas == 2

MaxTail == 4

-----------------------------------------------------------------------------
(* Python values *)

EmptyDict == [k \in {} |-> <<>>]

Get(d, k, default) == IF k \in DOMAIN d THEN d[k] ELSE default

\* d.get(k, '') as a CSV cell, for a key that holds a JSON number
GetCell(d, k) == IF k \in DOMAIN d THEN <<d[k]>> ELSE <<>>

\* Python's `a or b`, for dicts and for lists/strings
OrDict(a, b) == IF DOMAIN a # {} THEN a ELSE b

OrSeq(a, b) == IF Len(a) > 0 THEN a ELSE b

Last(s) == s[Len(s)]

\* str.split(sep): always at least one part, '' splits to ['']
RECURSIVE Split(_, _)
Split(s, sep) ==
    IF \A i \in 1..Len(s) : s[i] # sep
    THEN <<s>>
    ELSE LET i == CHOOSE j \in 1..Len(s) :
                      s[j] = sep /\ \A k \in 1..(j - 1) : s[k] # sep
         IN  <<SubSeq(s, 1, i - 1)>> \o Split(SubSeq(s, i + 1, Len(s)), sep)

StartsWith(s, p) == Len(s) >= Len(p) /\ SubSeq(s, 1, Len(p)) = p

ArnPrefix == <<"a", "r", "n", ":", "a", "w", "s", ":", "e", "k", "s", ":">>

-----------------------------------------------------------------------------
(* parse_cluster_info and the cluster identity of a document *)

ArnRegion(parts) == IF Len(parts) > 3 THEN parts[4] ELSE <<>>

\* variant: the 6th segment taken whole, `cluster/` left in
ArnClusterName_Whole(parts) == IF Len(parts) > 5 THEN parts[6] ELSE <<>>

ArnClusterName(parts) ==
    IF Len(parts) > 5 THEN Last(Split(parts[6], "/")) ELSE <<>>

parse_cluster_info(cluster_context) ==
    IF StartsWith(cluster_context, ArnPrefix)
    THEN LET parts == Split(cluster_context, ":")
         IN  <<ArnRegion(parts), ArnClusterName(parts)>>
    ELSE <<<<>>, cluster_context>>

\* export_summary_csv: <<region, cluster_name>>
SummaryIdentity(data) ==
    LET cluster_context ==
            Get(Get(data, "args", EmptyDict), "cluster_context", <<>>)
    IN  IF Len(cluster_context) > 0
        THEN parse_cluster_info(cluster_context)
        ELSE <<<<>>, Get(data, "cluster", <<>>)>>

\* export_deployments_csv: <<region, cluster_name>>
DeploymentsIdentity(data) ==
    LET cluster_context ==
            Get(Get(data, "args", EmptyDict), "cluster_context", <<>>)
    IN  IF Len(cluster_context) > 0
        THEN parse_cluster_info(cluster_context)
        ELSE <<<<>>, Get(data, "cluster", <<>>)>>

-----------------------------------------------------------------------------
(* export_summary_csv: the row of one document *)

Postprocessed(data) ==
    OrDict(Get(data, "postprocessed", EmptyDict),
           Get(data, "postprocessed_data", EmptyDict))

\* variant: the correctly spelled key is read
NodesUsedAvg_Spelled(postprocessed) == GetCell(postprocessed, "nodes_used_avg")

NodesUsedAvg(postprocessed) == GetCell(postprocessed, "nosed_used_avg")

NodesUsedMedian(postprocessed) == GetCell(postprocessed, "nosed_used_median")

NodesUsedMax(postprocessed) == GetCell(postprocessed, "nosed_used_max")

NodesUsedMin(postprocessed) == GetCell(postprocessed, "nosed_used_min")

\* measurements = data.get('measurements', []) or data.get('measurements_taken', [])
Measurements(data) ==
    OrSeq(Get(data, "measurements", <<>>), Get(data, "measurements_taken", <<>>))

\* variant: no fallback to the pre-measurement
LegacyClusterData_PostOnly(measurements_pre, measurements_post) ==
    Get(measurements_post, "cluster", EmptyDict)

LegacyClusterData(measurements_pre, measurements_post) ==
    OrDict(Get(measurements_post, "cluster", EmptyDict),
           Get(measurements_pre, "cluster", EmptyDict))

\* variant: the count falls back to the pre-measurement as the cluster data does
LegacyDeploymentCount_PreFallback(measurements_pre, measurements_post) ==
    Len(OrSeq(Get(measurements_post, "deployments", <<>>),
              Get(measurements_pre, "deployments", <<>>)))

LegacyDeploymentCount(measurements_pre, measurements_post) ==
    Len(Get(measurements_post, "deployments", <<>>))

SummaryClusterData(data) ==
    LET measurements == Measurements(data)
    IN  IF Len(measurements) > 0
        THEN Get(measurements[1], "cluster", EmptyDict)
        ELSE LegacyClusterData(Get(data, "measurements_pre", EmptyDict),
                               Get(data, "measurements_post", EmptyDict))

SummaryDeploymentCount(data) ==
    LET measurements == Measurements(data)
    IN  IF Len(measurements) > 0
        THEN Len(Get(measurements[1], "deployments", <<>>))
        ELSE LegacyDeploymentCount(Get(data, "measurements_pre", EmptyDict),
                                   Get(data, "measurements_post", EmptyDict))

\* variant: a count of zero is emitted as 0
DeploymentCountCell_Plain(deployment_count) == <<deployment_count>>

\* 'deployment_count': deployment_count if deployment_count else ''
DeploymentCountCell(deployment_count) ==
    IF deployment_count # 0 THEN <<deployment_count>> ELSE <<>>

SummaryRow(data) ==
    LET ident        == SummaryIdentity(data)
        postprocessed == Postprocessed(data)
        cluster_data == SummaryClusterData(data)
    IN  [region              |-> ident[1],
         cluster             |-> ident[2],
         nodes_used_avg      |-> NodesUsedAvg(postprocessed),
         nodes_used_median   |-> NodesUsedMedian(postprocessed),
         nodes_used_max      |-> NodesUsedMax(postprocessed),
         nodes_used_min      |-> NodesUsedMin(postprocessed),
         node_count          |-> GetCell(cluster_data, "node_count"),
         eligible_node_count |-> GetCell(cluster_data, "eligible_node_count"),
         deployment_count    |-> DeploymentCountCell(SummaryDeploymentCount(data))]

-----------------------------------------------------------------------------
(* export_deployments_csv: the rows of one document *)

\* variant: only the first measurement is exported
DeploymentMeasurements_FirstOnly(data) ==
    LET measurements == Measurements(data)
    IN  IF Len(measurements) > 0
        THEN <<measurements[1]>>
        ELSE IF "measurements_post" \in DOMAIN data
                /\ DOMAIN data["measurements_post"] # {}
             THEN <<data["measurements_post"]>>
             ELSE measurements

\* the measurements the deployment rows are built from
DeploymentMeasurements(data) ==
    LET measurements == Measurements(data)
    IN  IF Len(measurements) > 0
        THEN measurements
        ELSE IF "measurements_post" \in DOMAIN data
                /\ DOMAIN data["measurements_post"] # {}
             THEN <<data["measurements_post"]>>
             ELSE measurements

\* one row per item of measurement['deployments']
MeasurementRows(ident, measurement) ==
    LET deployments == Get(measurement, "deployments", <<>>)
    IN  [i \in 1..Len(deployments) |->
            [region          |-> ident[1],
             cluster         |-> ident[2],
             deployment_name |-> Get(deployments[i][2], "name", deployments[i][1]),
             total_pods      |-> GetCell(deployments[i][2], "total_pods")]]

RECURSIVE RowsOfMeasurements(_, _)
RowsOfMeasurements(ident, measurements) ==
    IF measurements = <<>>
    THEN <<>>
    ELSE MeasurementRows(ident, Head(measurements))
            \o RowsOfMeasurements(ident, Tail(measurements))

DeploymentRows(data) ==
    RowsOfMeasurements(DeploymentsIdentity(data), DeploymentMeasurements(data))

-----------------------------------------------------------------------------
(* find_json_files *)

find_json_files ==
    IF path_kind = "file" THEN tree
    ELSE IF path_kind = "dir" THEN tree
    ELSE <<>>

NotWritten == [written |-> FALSE, rows |-> <<>>]

-----------------------------------------------------------------------------
(* The inputs explored: documents of every historical shape *)

\* a key that is absent, or present with one of the values of S
Opt(k, S) == {EmptyDict} \cup {k :> v : v \in S}

SeqsUpTo(S, n) == UNION {[1..k -> S] : k \in 0..n}

\* one deployment with an explicit name, partial cluster block
M1 ==
    [deployments |-> << <<"web", [name |-> "frontend", total_pods |-> 4]>> >>,
     cluster     |-> [node_count |-> 5]]

\* two deployments, full cluster block
M2 ==
    [deployments |-> << <<"api", [total_pods |-> 2]>>, <<"db", EmptyDict>> >>,
     cluster     |-> [node_count |-> 3, eligible_node_count |-> 2]]

\* a non-empty measurement whose deployments mapping is empty
M3 == [deployments |-> <<>>, cluster |-> [node_count |-> 7]]

MeasSet == {EmptyDict, M1, M2}

MeasLists == SeqsUpTo(MeasSet, MaxMeas)

MeasurementDocs ==
    {("cluster" :> <<"c">>) @@ a @@ b @@ c @@ d :
        a \in Opt("measurements", MeasLists),
        b \in Opt("measurements_taken", MeasLists),
        c \in Opt("measurements_post", {EmptyDict, M1, M3}),
        d \in Opt("measurements_pre", {M2})}

\* the four misspelled keys, and one correctly spelled key nothing reads
StatKeys ==
    {"nosed_used_avg", "nosed_used_median", "nosed_used_max", "nosed_used_min",
     "nodes_used_avg"}

StatValue(k) ==
    CASE k = "nosed_used_avg"    -> 7
      [] k = "nosed_used_median" -> 6
      [] k = "nosed_used_max"    -> 9
      [] k = "nosed_used_min"    -> 0
      [] OTHER                   -> 1

StatBlocks(offset) ==
    {[k \in S |-> StatValue(k) + offset] : S \in SUBSET StatKeys}

StatsDocs ==
    {("measurements" :> <<M1>>) @@ a @@ b :
        a \in Opt("postprocessed", StatBlocks(0)),
        b \in Opt("postprocessed_data", StatBlocks(10))}

Alphabet == {"a", ":", "/"}

Tails == SeqsUpTo(Alphabet, MaxTail)

Names == {<<"a">>, <<"b", "a">>, <<"a", "-", "b">>}

\* arn:aws:eks:<region>:<acct>:cluster/<name>
MkArn(region, acct, name) ==
    ArnPrefix \o region \o <<":">> \o acct
              \o <<":", "c", "l", "u", "s", "t", "e", "r", "/">> \o name

ContextStrings ==
    Tails
    \cup {ArnPrefix \o t : t \in Tails}
    \cup {SubSeq(ArnPrefix, 1, 11) \o t : t \in Tails}
    \cup {MkArn(r, <<"1">>, n) : r \in Names, n \in Names}

ClusterDocs ==
    {("measurements" :> <<M1>>) @@ a @@ b :
        a \in Opt("args", {EmptyDict}
                            \cup {[cluster_context |-> s] : s \in ContextStrings}),
        b \in Opt("cluster", {<<>>, <<"b">>})}

Malformed == [valid |-> FALSE, data |-> EmptyDict]

File(data) == [valid |-> TRUE, data |-> data]

\* new format: a plain cluster name, one measurement with two deployments
DocNew == [cluster |-> <<"c", "1">>, measurements |-> <<M2>>]

\* legacy format: an ARN, measurements_pre/post with one deployment each
DocLegacy ==
    [args |-> [cluster_context |-> MkArn(<<"r">>, <<"1">>, <<"c", "2">>)],
     measurements_pre  |-> M1,
     measurements_post |-> M1]

\* a document no deployment row comes from
DocNoRows == [cluster |-> <<"c", "3">>, measurements_pre |-> M2]

\* a document with no measurement of any shape
DocBare == [cluster |-> <<"c", "4">>]

MainFiles ==
    {Malformed, File(DocNew), File(DocLegacy), File(DocNoRows), File(DocBare)}

InitRun ==
    /\ pc = "find"
    /\ json_files = <<>>
    /\ output_dir_made = FALSE
    /\ calls = <<>>
    /\ idx = 1
    /\ rows = <<>>
    /\ summary_file = NotWritten
    /\ deployments_file = NotWritten
    /\ log = <<>>
    /\ status = "running"

\* any path, any flags, any list of files
InitMain ==
    /\ path_kind \in {"file", "dir", "missing"}
    /\ tree \in SeqsUpTo(MainFiles, MaxFiles)
    /\ path_kind = "file" => Len(tree) = 1
    /\ path_kind = "missing" => Len(tree) = 0
    /\ summary_only \in BOOLEAN
    /\ deployments_only \in BOOLEAN

\* a single document, both tables exported
InitDocument ==
    /\ path_kind = "file"
    /\ tree \in {<<File(d)>> : d \in MeasurementDocs \cup StatsDocs \cup ClusterDocs}
    /\ summary_only = FALSE
    /\ deployments_only = FALSE

Init == (InitMain \/ InitDocument) /\ InitRun

-----------------------------------------------------------------------------
(* main and the two export functions, one action per step *)

\* variant: no early return when nothing was found
MainFindFiles_NoReturn ==
    /\ pc = "find"
    /\ json_files' = find_json_files
    /\ log' = Append(log, "INFO Found JSON file(s)")
    /\ pc' = "mkdir"
    /\ UNCHANGED <<inputs, output_dir_made, calls, idx, rows, summary_file,
                   deployments_file, status>>

\* json_files = find_json_files(args.input_path); if not json_files: return 1
MainFindFiles ==
    /\ pc = "find"
    /\ json_files' = find_json_files
    /\ IF Len(find_json_files) = 0
       THEN /\ log' = log \o (IF path_kind \in {"file", "dir"} THEN <<>>
                              ELSE <<"ERROR Path not found">>)
                          \o <<"ERROR No JSON files found">>
            /\ status' = "exit1"
            /\ pc' = "done"
       ELSE /\ log' = Append(log, "INFO Found JSON file(s)")
            /\ status' = status
            /\ pc' = "mkdir"
    /\ UNCHANGED <<inputs, output_dir_made, calls, idx, rows, summary_file,
                   deployments_file>>

\* output_dir.mkdir(parents=True, exist_ok=True)
MainMkdir ==
    /\ pc = "mkdir"
    /\ output_dir_made' = TRUE
    /\ pc' = "summary?"
    /\ UNCHANGED <<inputs, json_files, calls, idx, rows, summary_file,
                   deployments_file, log, status>>

export_both == ~summary_only /\ ~deployments_only

\* if args.summary_only or export_both: export_summary_csv(...)
MainExportSummary ==
    /\ pc = "summary?"
    /\ IF summary_only \/ export_both
       THEN /\ calls' = Append(calls, "summary")
            /\ idx' = 1
            /\ rows' = <<>>
            /\ pc' = "summary_loop"
       ELSE /\ pc' = "deployments?"
            /\ UNCHANGED <<calls, idx, rows>>
    /\ UNCHANGED <<inputs, json_files, output_dir_made, summary_file,
                   deployments_file, log, status>>

\* variant: a file that does not parse is skipped
SummaryLoop_SkipInvalid ==
    /\ pc = "summary_loop"
    /\ idx <= Len(json_files)
    /\ rows' = IF json_files[idx].valid
               THEN Append(rows, SummaryRow(json_files[idx].data))
               ELSE rows
    /\ idx' = idx + 1
    /\ UNCHANGED <<inputs, pc, status, json_files, output_dir_made, calls,
                   summary_file, deployments_file, log>>

\* one iteration of export_summary_csv's loop over json_files
SummaryLoop ==
    /\ pc = "summary_loop"
    /\ idx <= Len(json_files)
    /\ IF json_files[idx].valid
       THEN /\ rows' = Append(rows, SummaryRow(json_files[idx].data))
            /\ idx' = idx + 1
            /\ UNCHANGED <<pc, status>>
       ELSE /\ status' = "exception"
            /\ pc' = "done"
            /\ UNCHANGED <<rows, idx>>
    /\ UNCHANGED <<inputs, json_files, output_dir_made, calls, summary_file,
                   deployments_file, log>>

\* export_summary_csv after the loop: write the CSV, or warn
SummaryWrite ==
    /\ pc = "summary_loop"
    /\ idx > Len(json_files)
    /\ IF Len(rows) > 0
       THEN /\ summary_file' = [written |-> TRUE, rows |-> rows]
            /\ log' = Append(log, "INFO Wrote summary rows")
       ELSE /\ summary_file' = summary_file
            /\ log' = Append(log, "WARNING No data to write to summary CSV")
    /\ pc' = "deployments?"
    /\ UNCHANGED <<inputs, json_files, output_dir_made, calls, idx, rows,
                   deployments_file, status>>

\* if args.deployments_only or export_both: export_deployments_csv(...)
MainExportDeployments ==
    /\ pc = "deployments?"
    /\ IF deployments_only \/ export_both
       THEN /\ calls' = Append(calls, "deployments")
            /\ idx' = 1
            /\ rows' = <<>>
            /\ pc' = "deployments_loop"
       ELSE /\ pc' = "return"
            /\ UNCHANGED <<calls, idx, rows>>
    /\ UNCHANGED <<inputs, json_files, output_dir_made, summary_file,
                   deployments_file, log, status>>

\* one iteration of export_deployments_csv's loop over json_files
DeploymentsLoop ==
    /\ pc = "deployments_loop"
    /\ idx <= Len(json_files)
    /\ IF json_files[idx].valid
       THEN /\ rows' = rows \o DeploymentRows(json_files[idx].data)
            /\ idx' = idx + 1
            /\ UNCHANGED <<pc, status>>
       ELSE /\ status' = "exception"
            /\ pc' = "done"
            /\ UNCHANGED <<rows, idx>>
    /\ UNCHANGED <<inputs, json_files, output_dir_made, calls, summary_file,
                   deployments_file, log>>

\* variant: a header-only file is written when there are no rows
DeploymentsWrite_HeaderOnly ==
    /\ pc = "deployments_loop"
    /\ idx > Len(json_files)
    /\ deployments_file' = [written |-> TRUE, rows |-> rows]
    /\ log' = Append(log, "INFO Wrote deployment rows")
    /\ pc' = "return"
    /\ UNCHANGED <<inputs, json_files, output_dir_made, calls, idx, rows,
                   summary_file, status>>

\* export_deployments_csv after the loop: write the CSV, or warn
DeploymentsWrite ==
    /\ pc = "deployments_loop"
    /\ idx > Len(json_files)
    /\ IF Len(rows) > 0
       THEN /\ deployments_file' = [written |-> TRUE, rows |-> rows]
            /\ log' = Append(log, "INFO Wrote deployment rows")
       ELSE /\ deployments_file' = deployments_file
            /\ log' = Append(log, "WARNING No data to write to deployments CSV")
    /\ pc' = "return"
    /\ UNCHANGED <<inputs, json_files, output_dir_made, calls, idx, rows,
                   summary_file, status>>

\* logger.info("Export complete!"); return 0
MainReturn ==
    /\ pc = "return"
    /\ log' = Append(log, "INFO Export complete!")
    /\ status' = "exit0"
    /\ pc' = "done"
    /\ UNCHANGED <<inputs, json_files, output_dir_made, calls, idx, rows,
                   summary_file, deployments_file>>

Next ==
    \/ MainFindFiles
    \/ MainMkdir
    \/ MainExportSummary
    \/ SummaryLoop
    \/ SummaryWrite
    \/ MainExportDeployments
    \/ DeploymentsLoop
    \/ DeploymentsWrite
    \/ MainReturn

Spec == Init /\ [][Next]_vars

-----------------------------------------------------------------------------
(* What the properties below read off a state *)

Running(export) == calls # <<>> /\ Last(calls) = export

\* the summary rows built so far, or as written once the export is over
SummaryRowsSeen == IF Running("summary") THEN rows ELSE summary_file.rows

\* the document the running loop handled last
LastData == json_files[idx - 1].data

Handled == idx > 1 /\ idx - 1 <= Len(json_files)

NonEmptyList(data, k) == k \in DOMAIN data /\ Len(data[k]) > 0

\* size of a measurement's `deployments` mapping, 0 when it has none
DeploymentsSize(measurement) ==
    IF "deployments" \in DOMAIN measurement
    THEN Len(measurement["deployments"])
    ELSE 0

RECURSIVE SumSizes(_)
SumSizes(measurements) ==
    IF Len(measurements) = 0
    THEN 0
    ELSE DeploymentsSize(measurements[1]) + SumSizes(Tail(measurements))

\* the measurements collection as the normalisation table states it
StatedCollection(data) ==
    IF NonEmptyList(data, "measurements") THEN data["measurements"]
    ELSE IF NonEmptyList(data, "measurements_taken") THEN data["measurements_taken"]
    ELSE IF "measurements_post" \in DOMAIN data THEN <<data["measurements_post"]>>
    ELSE <<>>

StatedRowCount(data) == SumSizes(StatedCollection(data))

RECURSIVE StatedRowTotal(_)
StatedRowTotal(n) ==
    IF n = 0 THEN 0
    ELSE StatedRowCount(json_files[n].data) + StatedRowTotal(n - 1)

Legacy(data) ==
    ~NonEmptyList(data, "measurements") /\ ~NonEmptyList(data, "measurements_taken")

\* block.key as a cell, '' when the block or the key is absent
CellOf(data, block, key) ==
    IF block \in DOMAIN data /\ key \in DOMAIN data[block]
    THEN <<data[block][key]>>
    ELSE <<>>

-----------------------------------------------------------------------------
(* C1 *)

\* C1: the deployment rows of a document are one per entry of `deployments`,
\* summed over every entry of the chosen collection (measurements, else
\* measurements_taken, else [measurements_post]); when measurements and
\* measurements_taken are both non-empty the count is that of measurements.
C1_DeploymentRowCount ==
    Running("deployments") =>
        /\ Len(rows) = StatedRowTotal(idx - 1)
        /\ (Handled /\ Len(json_files) = 1
                /\ NonEmptyList(LastData, "measurements")
                /\ NonEmptyList(LastData, "measurements_taken"))
            => Len(rows) = SumSizes(LastData["measurements"])

C1_Witness ==
    /\ status = "exit0"
    /\ Len(json_files) = 1
    /\ NonEmptyList(json_files[1].data, "measurements_taken")
    /\ "measurements" \in DOMAIN json_files[1].data
    /\ json_files[1].data["measurements"] = <<M1, M2>>
    /\ json_files[1].data["measurements_taken"] = <<M2>>
    /\ deployments_file.written
    /\ Len(deployments_file.rows) = 3

-----------------------------------------------------------------------------
(* C2 *)

SepPositions(s, sep) == {i \in 1..Len(s) : s[i] = sep}

NumSegments(s, sep) == Cardinality(SepPositions(s, sep)) + 1

\* the n-th sep-separated segment of s (1 <= n <= NumSegments), by position
Segment(s, sep, n) ==
    LET P     == SepPositions(s, sep)
        Nth(m) == CHOOSE i \in P : Cardinality({j \in P : j < i}) = m - 1
        lo    == IF n = 1 THEN 0 ELSE Nth(n - 1)
        hi    == IF n > Cardinality(P) THEN Len(s) + 1 ELSE Nth(n)
    IN  SubSeq(s, lo + 1, hi - 1)

IsArn(s) ==
    /\ Len(s) >= Len(ArnPrefix)
    /\ \A i \in 1..Len(ArnPrefix) : s[i] = ArnPrefix[i]

ContextOf(data) ==
    IF "args" \in DOMAIN data /\ "cluster_context" \in DOMAIN data["args"]
    THEN data["args"]["cluster_context"]
    ELSE <<>>

\* <<region, cluster name>> as the fallback table states it
StatedIdentity(data) ==
    LET cc == ContextOf(data)
    IN  IF Len(cc) > 0 /\ IsArn(cc)
        THEN <<IF NumSegments(cc, ":") >= 4 THEN Segment(cc, ":", 4) ELSE <<>>,
               IF NumSegments(cc, ":") >= 6
               THEN LET s6 == Segment(cc, ":", 6)
                    IN  Segment(s6, "/", NumSegments(s6, "/"))
               ELSE <<>>>>
        ELSE IF Len(cc) > 0
        THEN <<<<>>, cc>>
        ELSE <<<<>>, IF "cluster" \in DOMAIN data THEN data["cluster"] ELSE <<>>>>

\* arn:aws:eks:<region>:<acct>:cluster/<name> yields exactly (<region>, <name>)
WellFormedIdentity(data, ident) ==
    \A r \in Names, n \in Names :
        ContextOf(data) = MkArn(r, <<"1">>, n) => ident = <<r, n>>

\* an ARN-prefixed string of fewer than 6 segments has an empty name,
\* whatever the top-level `cluster` field holds
ShortArnIdentity(data, ident) ==
    (IsArn(ContextOf(data)) /\ NumSegments(ContextOf(data), ":") < 6)
        => ident[2] = <<>>

IdentityAsStated(data, ident) ==
    /\ ident = StatedIdentity(data)
    /\ WellFormedIdentity(data, ident)
    /\ ShortArnIdentity(data, ident)

\* C2: in both exporters the (region, cluster) of a row follows the fallback:
\* an ARN-prefixed cluster_context gives the 4th colon-segment and the last
\* /-segment of the 6th colon-segment (empty when the segment is missing), a
\* non-empty non-ARN cluster_context gives ('', whole string), an absent or
\* empty one gives ('', top-level cluster or '').
C2_ClusterIdentity ==
    /\ \A i \in 1..Len(SummaryRowsSeen) :
          IdentityAsStated(json_files[i].data,
                           <<SummaryRowsSeen[i].region, SummaryRowsSeen[i].cluster>>)
    /\ (Running("deployments") /\ Handled) =>
          \A i \in 1..Len(rows) :
              i > StatedRowTotal(idx - 2) =>
                  IdentityAsStated(LastData, <<rows[i].region, rows[i].cluster>>)

C2_Witness ==
    /\ status = "exit0"
    /\ Len(json_files) = 1
    /\ ContextOf(json_files[1].data) = MkArn(<<"b", "a">>, <<"1">>, <<"a", "-", "b">>)
    /\ "cluster" \in DOMAIN json_files[1].data
    /\ summary_file.written
    /\ summary_file.rows[1].region = <<"b", "a">>
    /\ summary_file.rows[1].cluster = <<"a", "-", "b">>
    /\ deployments_file.written
    /\ deployments_file.rows[1].region = <<"b", "a">>
    /\ deployments_file.rows[1].cluster = <<"a", "-", "b">>

-----------------------------------------------------------------------------
(* C3 *)

PostOnly(data) ==
    /\ Legacy(data)
    /\ "measurements_post" \in DOMAIN data
    /\ "measurements_pre" \notin DOMAIN data

PostClusterCell(data, key) ==
    IF "cluster" \in DOMAIN data["measurements_post"]
       /\ key \in DOMAIN data["measurements_post"]["cluster"]
    THEN <<data["measurements_post"]["cluster"][key]>>
    ELSE <<>>

\* C3: a legacy document with measurements_post and no measurements_pre has
\* node_count and eligible_node_count of measurements_post.cluster ('' when
\* absent) and deployment_count the size of measurements_post.deployments,
\* a size of 0 being emitted as '' and not as 0.
C3_PostOnlySummary ==
    \A i \in 1..Len(SummaryRowsSeen) :
        LET data == json_files[i].data
            row  == SummaryRowsSeen[i]
            size == DeploymentsSize(data["measurements_post"])
        IN  PostOnly(data) =>
                /\ row.node_count = PostClusterCell(data, "node_count")
                /\ row.eligible_node_count = PostClusterCell(data, "eligible_node_count")
                /\ row.deployment_count = (IF size = 0 THEN <<>> ELSE <<size>>)

C3_Witness ==
    /\ summary_file.written
    /\ Len(json_files) = 1
    /\ PostOnly(json_files[1].data)
    /\ json_files[1].data["measurements_post"] = M3
    /\ summary_file.rows[1].node_count = <<7>>
    /\ summary_file.rows[1].eligible_node_count = <<>>
    /\ summary_file.rows[1].deployment_count = <<>>

-----------------------------------------------------------------------------
(* C4 *)

PreOnly(data) ==
    /\ Legacy(data)
    /\ "measurements_post" \notin DOMAIN data
    /\ "measurements_pre" \in DOMAIN data

PreClusterCell(data, key) ==
    IF "cluster" \in DOMAIN data["measurements_pre"]
       /\ key \in DOMAIN data["measurements_pre"]["cluster"]
    THEN <<data["measurements_pre"]["cluster"][key]>>
    ELSE <<>>

\* C4 as stated: a legacy document with measurements_pre and no
\* measurements_post takes node_count, eligible_node_count and
\* deployment_count from the pre-measurement.
C4_PreOnlyCountsFromPre ==
    \A i \in 1..Len(SummaryRowsSeen) :
        LET data == json_files[i].data
            row  == SummaryRowsSeen[i]
            size == DeploymentsSize(data["measurements_pre"])
        IN  PreOnly(data) =>
                /\ row.node_count = PreClusterCell(data, "node_count")
                /\ row.eligible_node_count = PreClusterCell(data, "eligible_node_count")
                /\ row.deployment_count = (IF size = 0 THEN <<>> ELSE <<size>>)

\* C4 amended: such a document takes node_count and eligible_node_count from
\* measurements_pre.cluster, and its deployment_count is always ''.
C4_PreOnlyClusterFromPre ==
    \A i \in 1..Len(SummaryRowsSeen) :
        LET data == json_files[i].data
            row  == SummaryRowsSeen[i]
        IN  PreOnly(data) =>
                /\ row.node_count = PreClusterCell(data, "node_count")
                /\ row.eligible_node_count = PreClusterCell(data, "eligible_node_count")
                /\ row.deployment_count = <<>>

C4_Witness ==
    /\ summary_file.written
    /\ Len(json_files) = 1
    /\ PreOnly(json_files[1].data)
    /\ json_files[1].data["measurements_pre"] = M2
    /\ summary_file.rows[1].node_count = <<3>>
    /\ summary_file.rows[1].eligible_node_count = <<2>>
    /\ summary_file.rows[1].deployment_count = <<>>

-----------------------------------------------------------------------------
(* C5 *)

\* the key of the block the statistics are read from
StatedBlock(data) ==
    IF "postprocessed" \in DOMAIN data /\ DOMAIN data["postprocessed"] # {}
    THEN "postprocessed"
    ELSE "postprocessed_data"

\* C5: nodes_used_avg/median/max/min carry the values of the misspelled keys
\* nosed_used_avg/median/max/min of `postprocessed` when that is present and
\* non-empty, else of `postprocessed_data`; a missing key gives ''.
C5_MisspelledKeys ==
    \A i \in 1..Len(SummaryRowsSeen) :
        LET data  == json_files[i].data
            row   == SummaryRowsSeen[i]
            block == StatedBlock(data)
        IN  /\ row.nodes_used_avg = CellOf(data, block, "nosed_used_avg")
            /\ row.nodes_used_median = CellOf(data, block, "nosed_used_median")
            /\ row.nodes_used_max = CellOf(data, block, "nosed_used_max")
            /\ row.nodes_used_min = CellOf(data, block, "nosed_used_min")

C5_Witness ==
    /\ summary_file.written
    /\ Len(json_files) = 1
    /\ "postprocessed" \in DOMAIN json_files[1].data
    /\ DOMAIN json_files[1].data["postprocessed"] = {"nosed_used_avg", "nodes_used_avg"}
    /\ json_files[1].data["postprocessed"]["nosed_used_avg"] = 7
    /\ summary_file.rows[1].nodes_used_avg = <<7>>
    /\ summary_file.rows[1].nodes_used_min = <<>>

-----------------------------------------------------------------------------
(* C6 *)

Called(export) == \E i \in 1..Len(calls) : calls[i] = export

\* C6: --summary-only keeps the deployments export from running,
\* --deployments-only keeps the summary export from running, and with neither
\* flag both run, the summary export first.
C6_FlagsRestrict ==
    /\ summary_only => ~Called("deployments")
    /\ deployments_only => ~Called("summary")
    /\ (~summary_only /\ ~deployments_only /\ status = "exit0")
        => calls = <<"summary", "deployments">>

-----------------------------------------------------------------------------
(* C7 *)

\* discovery yields no files: the path is neither a file nor a directory, or
\* it is a directory without any *.json file
NothingToFind == path_kind = "missing" \/ (path_kind = "dir" /\ Len(tree) = 0)

\* C7: main returns non-zero exactly when discovery yields no files, and then
\* before the output directory is made and before either export runs; every
\* other run that raises nothing returns zero.
C7_ExitStatus ==
    /\ status = "exit1" =>
          /\ NothingToFind
          /\ ~output_dir_made
          /\ calls = <<>>
          /\ ~summary_file.written
          /\ ~deployments_file.written
    /\ (NothingToFind /\ pc # "find") => (status = "exit1" /\ pc = "done")
    /\ (pc = "done" /\ status # "exception" /\ ~NothingToFind) => status = "exit0"
    /\ status = "exit0" => ~NothingToFind

C7_Witness ==
    /\ status = "exit1"
    /\ pc = "done"
    /\ path_kind = "dir"
    /\ tree = <<>>
    /\ ~output_dir_made

-----------------------------------------------------------------------------
(* C8 *)

HasMalformed == \E i \in 1..Len(json_files) : ~json_files[i].valid

\* C8: when a discovered file does not parse, the run ends by the exception
\* and never by a zero exit, the files after the first malformed one are not
\* processed, and neither CSV file is written.
C8_MalformedAborts ==
    /\ HasMalformed =>
          /\ status # "exit0"
          /\ ~summary_file.written
          /\ ~deployments_file.written
          /\ pc = "done" => status = "exception"
          /\ \A i \in 1..Len(json_files) : ~json_files[i].valid => idx <= i
    /\ status = "exception" =>
          /\ pc = "done"
          /\ idx \in 1..Len(json_files)
          /\ ~json_files[idx].valid
          /\ Running("summary") => Len(rows) = idx - 1

C8_Witness ==
    /\ status = "exception"
    /\ Len(json_files) = 3
    /\ idx = 2
    /\ json_files[1].valid
    /\ json_files[3].valid
    /\ Len(rows) = 1
    /\ output_dir_made

-----------------------------------------------------------------------------
(* C9 *)

NoDeploymentRows ==
    \A i \in 1..Len(json_files) :
        json_files[i].valid /\ StatedRowCount(json_files[i].data) = 0

\* C9: a table without rows is not written (no empty or header-only file);
\* in a run of both exports over documents none of which yields a deployment
\* row, the deployments CSV is not written and a warning is logged, the
\* summary CSV holds one row per input file in input order, and main
\* returns zero.
C9_EmptyTableNotWritten ==
    /\ summary_file.written => Len(summary_file.rows) > 0
    /\ deployments_file.written => Len(deployments_file.rows) > 0
    /\ (pc = "done" /\ Called("summary") /\ Called("deployments")
            /\ Len(json_files) > 0 /\ NoDeploymentRows)
        => /\ status = "exit0"
           /\ ~deployments_file.written
           /\ \E i \in 1..Len(log) :
                 log[i] = "WARNING No data to write to deployments CSV"
           /\ \A i \in 1..Len(log) :
                 log[i] # "WARNING No data to write to summary CSV"
           /\ summary_file.written
           /\ Len(summary_file.rows) = Len(json_files)
           /\ \A i \in 1..Len(json_files) :
                 summary_file.rows[i].cluster = StatedIdentity(json_files[i].data)[2]

C9_Witness ==
    /\ pc = "done"
    /\ status = "exit0"
    /\ json_files = <<File(DocNoRows), File(DocBare), File(DocNoRows)>>
    /\ calls = <<"summary", "deployments">>
    /\ ~deployments_file.written
    /\ summary_file.written
    /\ Len(summary_file.rows) = 3
    /\ summary_file.rows[2].cluster = <<"c", "4">>

-----------------------------------------------------------------------------
(* C10 *)

\* the measurement both exporters start from, <<>> when there is none
FirstSelected(data) ==
    IF Len(StatedCollection(data)) > 0 THEN <<StatedCollection(data)[1]>> ELSE <<>>

\* C10: the summary row's deployment_count is non-empty exactly when the
\* document's first selected measurement yields a deployment row, and then it
\* is the number of those rows; a legacy document with only measurements_pre
\* has an empty deployment_count and no deployment row.
C10_CountMatchesRows ==
    (Running("deployments") /\ summary_file.written /\ Handled) =>
        LET data  == LastData
            count == summary_file.rows[idx - 1].deployment_count
            added == SubSeq(rows, StatedRowTotal(idx - 2) + 1, Len(rows))
            first == IF Len(DeploymentMeasurements(data)) = 0
                     THEN 0
                     ELSE Len(MeasurementRows(DeploymentsIdentity(data),
                                              DeploymentMeasurements(data)[1]))
        IN  /\ first <= Len(added)
            /\ Len(StatedCollection(data)) <= 1 => first = Len(added)
            /\ first = SumSizes(FirstSelected(data))
            /\ (count # <<>>) <=> (first > 0)
            /\ first > 0 => count = <<first>>
            /\ PreOnly(data) => (count = <<>> /\ Len(added) = 0)

C10_Witness ==
    /\ status = "exit0"
    /\ Len(json_files) = 1
    /\ "measurements" \in DOMAIN json_files[1].data
    /\ json_files[1].data["measurements"] = <<M2, M1>>
    /\ summary_file.written
    /\ summary_file.rows[1].deployment_count = <<2>>
    /\ deployments_file.written
    /\ Len(deployments_file.rows) = 3

====
